---- MODULE Spec2Model ----
(***************************************************************************)
(* Model of src/app.py, the "Bitcoin mining mode cut-off calculator".      *)
(*                                                                         *)
(* The script runs top to bottom once per page run: it reads the widgets,  *)
(* computes the revenue rate, the efficiencies, the cut-off prices, the    *)
(* profit at the selected electricity price and the payback times.  Each   *)
(* section of the script is one action; pc is the section about to run.    *)
(*                                                                         *)
(* Python numbers are modelled as exact rationals n/d (d > 0, lowest       *)
(* terms), so equalities that hold in real arithmetic are equalities of    *)
(* the model; binary floating-point rounding is not modelled.  A Python    *)
(* exception stops the script: pc = "failed", exc is the exception type    *)
(* and line the source line that raised it.                                *)
(***************************************************************************)
EXTENDS Integers, Sequences, FiniteSets, TLC

VARIABLES
    pc, exc, line,
    \* widget values (lines 20-65, 146-151, 247)
    eco_power, eco_hash, std_power, std_hash, sup_power, sup_hash,
    network_hashrate, block_reward, btc_price,
    elec_price, purchase_price,
    \* computed values
    th_per_nok,
    eco_eff, std_eff, sup_eff, eco_jth, std_jth, sup_jth,
    delta_eff_eco_std, delta_eff_std_sup,
    eco_cutoff, eco_std_cutoff, std_sup_cutoff,
    slider_max, slider_value, elec_price_nok,
    eco_profit_curve, std_profit_curve, sup_profit_curve, min_profit,
    eco_profit, std_profit, sup_profit,
    eco_year_profit, std_year_profit, sup_year_profit,
    cut_off_efficiency, efficiency_label,
    eco_rev, std_rev, sup_rev, eco_PB, std_PB, sup_PB

modeInputs   == <<eco_power, eco_hash, std_power, std_hash, sup_power, sup_hash>>
marketInputs == <<network_hashrate, block_reward, btc_price>>
effVars      == <<eco_eff, std_eff, sup_eff, eco_jth, std_jth, sup_jth>>
deltaVars    == <<delta_eff_eco_std, delta_eff_std_sup>>
cutoffVars   == <<eco_cutoff, eco_std_cutoff, std_sup_cutoff>>
sliderVars   == <<slider_max, slider_value, elec_price, elec_price_nok>>
curveVars    == <<eco_profit_curve, std_profit_curve, sup_profit_curve, min_profit>>
profitVars   == <<eco_profit, std_profit, sup_profit,
                  eco_year_profit, std_year_profit, sup_year_profit>>
breakevenVars == <<cut_off_efficiency, efficiency_label>>
paybackVars  == <<purchase_price, eco_rev, std_rev, sup_rev, eco_PB, std_PB, sup_PB>>

vars == <<pc, exc, line, modeInputs, marketInputs, th_per_nok, effVars, deltaVars,
          cutoffVars, sliderVars, curveVars, profitVars, breakevenVars, paybackVars>>

-----------------------------------------------------------------------------
(* Bounds of the model: the widgets accept any number, the model draws     *)
(* them from these small ranges.                                           *)

MaxPowerKW == 2
MaxHash == 2
MaxPurchase == 1
CurvePoints == 3

\* The number_input widgets set no min_value: zero and negative values are
\* accepted.  Power is drawn in whole kW.
Powers    == {1000 * k : k \in 1..MaxPowerKW}
Hashes    == -1..MaxHash
Purchases == {100 * k : k \in 1..MaxPurchase}

-----------------------------------------------------------------------------
(* Exact rational arithmetic standing for Python's int/float arithmetic.   *)

Num(n, d) == [tag |-> "num", n |-> n, d |-> d]
IntVal(k)    == Num(k, 1)
Unset     == [tag |-> "unset", n |-> 0, d |-> 1]   \* name not bound yet
None      == [tag |-> "None",  n |-> 0, d |-> 1]   \* Python's None
Raise     == [tag |-> "raise", n |-> 0, d |-> 1]   \* the expression raised ZeroDivisionError

IsNum(a) == a.tag = "num"

\* the network and market widgets: zero, negative and positive values
Networks == {IntVal(0), IntVal(600)}
Rewards  == {IntVal(-1), IntVal(0), IntVal(1)}
Prices   == {IntVal(1), IntVal(2)}

Abs(x) == IF x < 0 THEN -x ELSE x

RECURSIVE GCD(_, _)
GCD(a, b) == IF b = 0 THEN a ELSE GCD(b, a % b)

Norm(n, d) ==
    IF n = 0 THEN Num(0, 1)
    ELSE LET g == GCD(Abs(n), d) IN Num(n \div g, d \div g)

Mul(a, b) ==
    IF ~IsNum(a) \/ ~IsNum(b) THEN Raise
    ELSE IF a.n = 0 \/ b.n = 0 THEN Num(0, 1)
    ELSE LET g1 == GCD(Abs(a.n), b.d)
             g2 == GCD(Abs(b.n), a.d)
         IN  Num((a.n \div g1) * (b.n \div g2), (a.d \div g2) * (b.d \div g1))

\* a / b: Python raises ZeroDivisionError when b is zero (int or float)
Div(a, b) ==
    IF ~IsNum(a) \/ ~IsNum(b) THEN Raise
    ELSE IF b.n = 0 THEN Raise
    ELSE Mul(a, IF b.n > 0 THEN Num(b.d, b.n) ELSE Num(-b.d, -b.n))

Add(a, b) ==
    IF ~IsNum(a) \/ ~IsNum(b) THEN Raise
    ELSE LET g == GCD(a.d, b.d)
             l == (a.d \div g) * b.d
         IN  Norm(a.n * (l \div a.d) + b.n * (l \div b.d), l)

Neg(a) == IF IsNum(a) THEN Num(-a.n, a.d) ELSE Raise
Sub(a, b) == Add(a, Neg(b))

Lt(a, b)  == Sub(a, b).n < 0
Leq(a, b) == Sub(a, b).n <= 0
Positive(a) == IsNum(a) /\ a.n > 0

\* round(x) of a float: to the nearest integer, ties to the even one
Round(a) ==
    LET f == a.n \div a.d
        r == a.n - f * a.d
    IN  IF 2 * r < a.d THEN f
        ELSE IF 2 * r > a.d THEN f + 1
        ELSE IF f % 2 = 0 THEN f ELSE f + 1

-----------------------------------------------------------------------------
(* The functions and expressions of the script.                            *)

\* line 72: th_per_nok = network_hashrate * 600 / (block_reward * btc_price)
calc_th_per_nok(nh, br, bp) == Div(Mul(nh, IntVal(600)), Mul(br, bp))

\* th_per_kwh without the W -> kW conversion
th_per_kwh_watts(hashrate, power_w) ==
    Div(Mul(hashrate, IntVal(3600)), power_w)

\* lines 75-76
th_per_kwh(hashrate, power_w) ==
    Div(Mul(hashrate, IntVal(3600)), Div(power_w, IntVal(1000)))

\* j_per_th with the quotient inverted
j_per_th_inverted(hashrate, power_w) == Div(hashrate, power_w)

\* lines 78-79
j_per_th(hashrate, power_w) == Div(power_w, hashrate)

\* cut-off left in NOK/kWh: the factor 100 (NOK -> ore) is missing
cutoff_in_nok(eff, tpn) == Div(eff, tpn)

\* lines 94-96: 100 * eff / th_per_nok
cutoff(eff, tpn) == Div(Mul(IntVal(100), eff), tpn)

\* profit_per_hour adding the electricity cost instead of subtracting it
profit_per_hour_plus(tpn, power_w, price_nok, hashrate) ==
    Add(Div(Mul(hashrate, IntVal(3600)), tpn),
        Mul(Mul(price_nok, power_w), Num(1, 1000)))

\* profit_per_hour reading the module-level elec_price_nok instead of its parameter
profit_per_hour_global(tpn, power_w, price_nok, hashrate) ==
    Sub(Div(Mul(hashrate, IntVal(3600)), tpn),
        Mul(Mul(elec_price_nok, power_w), Num(1, 1000)))

\* lines 158-159
profit_per_hour(tpn, power_w, price_nok, hashrate) ==
    Sub(Div(Mul(hashrate, IntVal(3600)), tpn),
        Mul(Mul(price_nok, power_w), Num(1, 1000)))

\* lines 223-225: profit * 24 * 365
year_profit(profit) == Mul(Mul(profit, IntVal(24)), IntVal(365))

\* lines 253-255: purchase_price / (rev * 24 * 365)
payback(purchase, rev) == Div(purchase, Mul(Mul(rev, IntVal(24)), IntVal(365)))

\* line 233: 3600000 / (elec_price_nok * th_per_nok)
calc_cut_off_efficiency(price_nok, tpn) == Div(IntVal(3600000), Mul(price_nok, tpn))

\* line 168-169: np.linspace(0, slider_max, n)[i] / 100, i = 0..n-1
price_range_nok(smax, i) == Div(Div(Mul(IntVal(i), IntVal(smax)), IntVal(CurvePoints - 1)), IntVal(100))

\* lines 171-173: 100 * profit_per_hour(...) over the price range
profit_curve(tpn, power_w, smax, hashrate) ==
    [i \in 0..(CurvePoints - 1) |->
        Mul(IntVal(100), profit_per_hour(tpn, power_w, price_range_nok(smax, i), hashrate))]

\* line 204: eco_profit_curve.min()
curve_min(curve) ==
    CHOOSE m \in {curve[i] : i \in DOMAIN curve} :
        \A i \in DOMAIN curve : Leq(m, curve[i])

-----------------------------------------------------------------------------
(* Statements of one section run in order; the first that raises stops the *)
(* script and leaves the later names unbound.                              *)

FirstRaise(rs) ==
    IF \E i \in 1..Len(rs) : rs[i].tag = "raise"
    THEN CHOOSE i \in 1..Len(rs) :
            rs[i].tag = "raise" /\ \A j \in 1..(i - 1) : rs[j].tag # "raise"
    ELSE 0

Assigned(rs, i) ==
    IF FirstRaise(rs) = 0 \/ i < FirstRaise(rs) THEN rs[i] ELSE Unset

Control(rs, lines, next) ==
    IF FirstRaise(rs) = 0
    THEN pc' = next /\ exc' = "none" /\ line' = 0
    ELSE pc' = "failed" /\ exc' = "ZeroDivisionError" /\ line' = lines[FirstRaise(rs)]

-----------------------------------------------------------------------------
(* State before the script has run: no name is bound.                      *)

Init ==
    /\ pc = "modes" /\ exc = "none" /\ line = 0
    /\ eco_power = Unset /\ eco_hash = Unset
    /\ std_power = Unset /\ std_hash = Unset
    /\ sup_power = Unset /\ sup_hash = Unset
    /\ network_hashrate = Unset /\ block_reward = Unset /\ btc_price = Unset
    /\ elec_price = Unset /\ purchase_price = Unset
    /\ th_per_nok = Unset
    /\ eco_eff = Unset /\ std_eff = Unset /\ sup_eff = Unset
    /\ eco_jth = Unset /\ std_jth = Unset /\ sup_jth = Unset
    /\ delta_eff_eco_std = Unset /\ delta_eff_std_sup = Unset
    /\ eco_cutoff = Unset /\ eco_std_cutoff = Unset /\ std_sup_cutoff = Unset
    /\ slider_max = Unset /\ slider_value = Unset /\ elec_price_nok = Unset
    /\ eco_profit_curve = Unset /\ std_profit_curve = Unset
    /\ sup_profit_curve = Unset /\ min_profit = Unset
    /\ eco_profit = Unset /\ std_profit = Unset /\ sup_profit = Unset
    /\ eco_year_profit = Unset /\ std_year_profit = Unset /\ sup_year_profit = Unset
    /\ cut_off_efficiency = Unset /\ efficiency_label = "unset"
    /\ eco_rev = Unset /\ std_rev = Unset /\ sup_rev = Unset
    /\ eco_PB = Unset /\ std_PB = Unset /\ sup_PB = Unset

\* lines 20-37: the six number_input widgets of the miner modes
ReadModes ==
    /\ pc = "modes"
    /\ \E ep \in Powers, eh \in Hashes, sp \in Powers, sh \in Hashes,
          up \in Powers, uh \in Hashes :
          /\ eco_power' = IntVal(ep) /\ eco_hash' = IntVal(eh)
          /\ std_power' = IntVal(sp) /\ std_hash' = IntVal(sh)
          /\ sup_power' = IntVal(up) /\ sup_hash' = IntVal(uh)
    /\ pc' = "market"
    /\ UNCHANGED <<exc, line, marketInputs, th_per_nok, effVars, deltaVars, cutoffVars,
                   sliderVars, curveVars, profitVars, breakevenVars, paybackVars>>

\* lines 42-65: the three number_input widgets of the network and the market
ReadMarket ==
    /\ pc = "market"
    /\ \E nh \in Networks, br \in Rewards, bp \in Prices :
          /\ network_hashrate' = nh
          /\ block_reward' = br
          /\ btc_price' = bp
    /\ pc' = "rate"
    /\ UNCHANGED <<exc, line, modeInputs, th_per_nok, effVars, deltaVars, cutoffVars,
                   sliderVars, curveVars, profitVars, breakevenVars, paybackVars>>

\* line 72
CalcRate ==
    /\ pc = "rate"
    /\ LET rs == <<calc_th_per_nok(network_hashrate, block_reward, btc_price)>>
       IN  /\ th_per_nok' = Assigned(rs, 1)
           /\ Control(rs, <<72>>, "efficiency")
    /\ UNCHANGED <<modeInputs, marketInputs, effVars, deltaVars, cutoffVars,
                   sliderVars, curveVars, profitVars, breakevenVars, paybackVars>>

\* lines 81-87
CalcEfficiency ==
    /\ pc = "efficiency"
    /\ LET rs == << th_per_kwh(eco_hash, eco_power),
                    th_per_kwh(std_hash, std_power),
                    th_per_kwh(sup_hash, sup_power),
                    j_per_th(eco_hash, eco_power),
                    j_per_th(std_hash, std_power),
                    j_per_th(sup_hash, sup_power) >>
       IN  /\ eco_eff' = Assigned(rs, 1)
           /\ std_eff' = Assigned(rs, 2)
           /\ sup_eff' = Assigned(rs, 3)
           /\ eco_jth' = Assigned(rs, 4)
           /\ std_jth' = Assigned(rs, 5)
           /\ sup_jth' = Assigned(rs, 6)
           /\ Control(rs, <<81, 82, 83, 85, 86, 87>>, "incremental")
    /\ UNCHANGED <<modeInputs, marketInputs, th_per_nok, deltaVars, cutoffVars,
                   sliderVars, curveVars, profitVars, breakevenVars, paybackVars>>

\* lines 90-91
CalcIncremental ==
    /\ pc = "incremental"
    /\ LET rs == << th_per_kwh(Sub(std_hash, eco_hash), Sub(std_power, eco_power)),
                    th_per_kwh(Sub(sup_hash, std_hash), Sub(sup_power, std_power)) >>
       IN  /\ delta_eff_eco_std' = Assigned(rs, 1)
           /\ delta_eff_std_sup' = Assigned(rs, 2)
           /\ Control(rs, <<90, 91>>, "cutoffs")
    /\ UNCHANGED <<modeInputs, marketInputs, th_per_nok, effVars, cutoffVars,
                   sliderVars, curveVars, profitVars, breakevenVars, paybackVars>>

\* lines 94-96
CalcCutoffs ==
    /\ pc = "cutoffs"
    /\ LET rs == << cutoff(eco_eff, th_per_nok),
                    cutoff(delta_eff_eco_std, th_per_nok),
                    cutoff(delta_eff_std_sup, th_per_nok) >>
       IN  /\ eco_cutoff' = Assigned(rs, 1)
           /\ eco_std_cutoff' = Assigned(rs, 2)
           /\ std_sup_cutoff' = Assigned(rs, 3)
           /\ Control(rs, <<94, 95, 96>>, "slider")
    /\ UNCHANGED <<modeInputs, marketInputs, th_per_nok, effVars, deltaVars,
                   sliderVars, curveVars, profitVars, breakevenVars, paybackVars>>

\* line 143: int(round(eco_cutoff * 1.2))
calc_slider_max(ec) == Round(Mul(ec, Num(6, 5)))

\* line 144: int(round(slider_max * 0.5))
calc_slider_value(smax) == Round(Mul(IntVal(smax), Num(1, 2)))

\* lines 143-154: st.slider(min_value=0, max_value=slider_max, value=slider_value).
\* The widget rejects a value outside [min_value, max_value]; whether it accepts
\* min_value = max_value depends on the Streamlit release, so both outcomes are kept.
Slider ==
    /\ pc = "slider"
    /\ LET smax == calc_slider_max(eco_cutoff)
           sval == calc_slider_value(smax)
       IN  /\ slider_max' = IntVal(smax)
           /\ slider_value' = IntVal(sval)
           /\ \/ /\ smax <= 0
                 /\ pc' = "failed" /\ exc' = "StreamlitAPIException" /\ line' = 146
                 /\ UNCHANGED <<elec_price, elec_price_nok>>
              \/ /\ smax >= 0
                 /\ \E e \in 0..smax :
                       /\ elec_price' = IntVal(e)
                       /\ elec_price_nok' = Div(IntVal(e), IntVal(100))
                 /\ pc' = "plot"
                 /\ UNCHANGED <<exc, line>>
    /\ UNCHANGED <<modeInputs, marketInputs, th_per_nok, effVars, deltaVars, cutoffVars,
                   curveVars, profitVars, breakevenVars, paybackVars>>

\* lines 168-173 and 204: the three profit curves and the minimum of the Eco curve
PlotCurves ==
    /\ pc = "plot"
    /\ LET ec == profit_curve(th_per_nok, eco_power, slider_max.n, eco_hash)
           sc == profit_curve(th_per_nok, std_power, slider_max.n, std_hash)
           uc == profit_curve(th_per_nok, sup_power, slider_max.n, sup_hash)
       IN  /\ eco_profit_curve' = ec
           /\ std_profit_curve' = sc
           /\ sup_profit_curve' = uc
           /\ min_profit' = curve_min(ec)
    /\ pc' = "profit"
    /\ UNCHANGED <<exc, line, modeInputs, marketInputs, th_per_nok, effVars, deltaVars,
                   cutoffVars, sliderVars, profitVars, breakevenVars, paybackVars>>

\* lines 219-229
CalcProfit ==
    /\ pc = "profit"
    /\ LET ep == profit_per_hour(th_per_nok, eco_power, elec_price_nok, eco_hash)
           sp == profit_per_hour(th_per_nok, std_power, elec_price_nok, std_hash)
           up == profit_per_hour(th_per_nok, sup_power, elec_price_nok, sup_hash)
           rs == << ep, sp, up, year_profit(ep), year_profit(sp), year_profit(up) >>
       IN  /\ eco_profit' = Assigned(rs, 1)
           /\ std_profit' = Assigned(rs, 2)
           /\ sup_profit' = Assigned(rs, 3)
           /\ eco_year_profit' = Assigned(rs, 4)
           /\ std_year_profit' = Assigned(rs, 5)
           /\ sup_year_profit' = Assigned(rs, 6)
           /\ Control(rs, <<219, 220, 221, 223, 224, 225>>, "breakeven")
    /\ UNCHANGED <<modeInputs, marketInputs, th_per_nok, effVars, deltaVars, cutoffVars,
                   sliderVars, curveVars, breakevenVars, paybackVars>>

\* lines 232-239
CalcBreakeven ==
    /\ pc = "breakeven"
    /\ IF Positive(elec_price_nok)
       THEN LET rs == << calc_cut_off_efficiency(elec_price_nok, th_per_nok) >>
            IN  /\ cut_off_efficiency' = Assigned(rs, 1)
                /\ efficiency_label' =
                       IF FirstRaise(rs) = 0 THEN "J/TH" ELSE efficiency_label
                /\ Control(rs, <<233>>, "payback")
       ELSE /\ cut_off_efficiency' = None
            /\ efficiency_label' = "inf J/TH"
            /\ pc' = "payback"
            /\ UNCHANGED <<exc, line>>
    /\ UNCHANGED <<modeInputs, marketInputs, th_per_nok, effVars, deltaVars, cutoffVars,
                   sliderVars, curveVars, profitVars, paybackVars>>

\* lines 247-259
CalcPayback ==
    /\ pc = "payback"
    /\ \E pp \in Purchases :
          LET er == profit_per_hour(th_per_nok, eco_power, IntVal(0), eco_hash)
              sr == profit_per_hour(th_per_nok, std_power, IntVal(0), std_hash)
              ur == profit_per_hour(th_per_nok, sup_power, IntVal(0), sup_hash)
              rs == << er, sr, ur,
                       payback(IntVal(pp), er),
                       payback(IntVal(pp), sr),
                       payback(IntVal(pp), ur) >>
          IN  /\ purchase_price' = IntVal(pp)
              /\ eco_rev' = Assigned(rs, 1)
              /\ std_rev' = Assigned(rs, 2)
              /\ sup_rev' = Assigned(rs, 3)
              /\ eco_PB' = Assigned(rs, 4)
              /\ std_PB' = Assigned(rs, 5)
              /\ sup_PB' = Assigned(rs, 6)
              /\ Control(rs, <<249, 250, 251, 253, 254, 255>>, "done")
    /\ UNCHANGED <<modeInputs, marketInputs, th_per_nok, effVars, deltaVars, cutoffVars,
                   sliderVars, curveVars, profitVars, breakevenVars>>

\* a widget is edited or the page is reloaded: the script runs again from the top
Rerun ==
    /\ pc \in {"done", "failed"}
    /\ pc' = "modes" /\ exc' = "none" /\ line' = 0
    /\ eco_power' = Unset /\ eco_hash' = Unset
    /\ std_power' = Unset /\ std_hash' = Unset
    /\ sup_power' = Unset /\ sup_hash' = Unset
    /\ network_hashrate' = Unset /\ block_reward' = Unset /\ btc_price' = Unset
    /\ elec_price' = Unset /\ purchase_price' = Unset
    /\ th_per_nok' = Unset
    /\ eco_eff' = Unset /\ std_eff' = Unset /\ sup_eff' = Unset
    /\ eco_jth' = Unset /\ std_jth' = Unset /\ sup_jth' = Unset
    /\ delta_eff_eco_std' = Unset /\ delta_eff_std_sup' = Unset
    /\ eco_cutoff' = Unset /\ eco_std_cutoff' = Unset /\ std_sup_cutoff' = Unset
    /\ slider_max' = Unset /\ slider_value' = Unset /\ elec_price_nok' = Unset
    /\ eco_profit_curve' = Unset /\ std_profit_curve' = Unset
    /\ sup_profit_curve' = Unset /\ min_profit' = Unset
    /\ eco_profit' = Unset /\ std_profit' = Unset /\ sup_profit' = Unset
    /\ eco_year_profit' = Unset /\ std_year_profit' = Unset /\ sup_year_profit' = Unset
    /\ cut_off_efficiency' = Unset /\ efficiency_label' = "unset"
    /\ eco_rev' = Unset /\ std_rev' = Unset /\ sup_rev' = Unset
    /\ eco_PB' = Unset /\ std_PB' = Unset /\ sup_PB' = Unset

Next ==
    \/ ReadModes
    \/ ReadMarket
    \/ CalcRate
    \/ CalcEfficiency
    \/ CalcIncremental
    \/ CalcCutoffs
    \/ Slider
    \/ PlotCurves
    \/ CalcProfit
    \/ CalcBreakeven
    \/ CalcPayback
    \/ Rerun

Spec == Init /\ [][Next]_vars

-----------------------------------------------------------------------------
(* Views of the state used by the properties.                              *)

ModeNames == {"eco", "std", "sup"}

Mode(m) ==
    CASE m = "eco" -> [power |-> eco_power, hash |-> eco_hash, eff |-> eco_eff,
                       jth |-> eco_jth, profit |-> eco_profit, curve |-> eco_profit_curve,
                       rev |-> eco_rev, PB |-> eco_PB]
      [] m = "std" -> [power |-> std_power, hash |-> std_hash, eff |-> std_eff,
                       jth |-> std_jth, profit |-> std_profit, curve |-> std_profit_curve,
                       rev |-> std_rev, PB |-> std_PB]
      [] m = "sup" -> [power |-> sup_power, hash |-> sup_hash, eff |-> sup_eff,
                       jth |-> sup_jth, profit |-> sup_profit, curve |-> sup_profit_curve,
                       rev |-> sup_rev, PB |-> sup_PB]

\* adjacent mode pairs with their incremental efficiency and switch threshold
Pairs ==
    { [lo |-> Mode("eco"), hi |-> Mode("std"), delta |-> delta_eff_eco_std,
       threshold |-> eco_std_cutoff, at |-> 90],
      [lo |-> Mode("std"), hi |-> Mode("sup"), delta |-> delta_eff_std_sup,
       threshold |-> std_sup_cutoff, at |-> 91] }

PositiveMode(md) == Positive(md.power) /\ Positive(md.hash)

PositiveMarket ==
    Positive(network_hashrate) /\ Positive(block_reward) /\ Positive(btc_price)

InputsRead == IsNum(btc_price)

InvalidInput ==
    \/ \E m \in ModeNames : ~Positive(Mode(m).power) \/ ~Positive(Mode(m).hash)
    \/ ~PositiveMarket

ValidInput == InputsRead /\ ~InvalidInput

Sign(a) == IF a.n > 0 THEN 1 ELSE IF a.n < 0 THEN -1 ELSE 0

\* price in ore/kWh -> NOK/kWh (line 154)
ToNok(ore) == Div(ore, IntVal(100))

\* the i-th plotted price in ore/kWh (line 168)
PlotPrice(i) == Mul(price_range_nok(slider_max.n, i), IntVal(100))

-----------------------------------------------------------------------------
C2_BreakEven ==
    \A m \in ModeNames :
        ( /\ IsNum(eco_cutoff) /\ PositiveMarket /\ PositiveMode(Mode(m)) )
        =>
        LET md == Mode(m)
            c  == IF m = "eco" THEN eco_cutoff ELSE cutoff(md.eff, th_per_nok)
        IN  /\ Positive(c)
            /\ profit_per_hour(th_per_nok, md.power, ToNok(c), md.hash) = IntVal(0)

C2_Witness ==
    /\ PositiveMarket /\ PositiveMode(Mode("eco"))
    /\ Positive(eco_cutoff)
    /\ profit_per_hour(th_per_nok, eco_power, ToNok(eco_cutoff), eco_hash) = IntVal(0)

(* C3: when any of power, hashrate, network hashrate, block reward or coin *)
(* price is zero or negative the program refuses to compute (nothing is    *)
(* computed and a validation failure is signalled), and no step divides by *)
(* zero.                                                                   *)
C3_Validation ==
    /\ exc # "ZeroDivisionError"
    /\ (InputsRead /\ InvalidInput) =>
          /\ th_per_nok = Unset
          /\ pc \in {"failed", "done"} => exc = "ValidationError"

(* C4: for an adjacent pair with hi.power = lo.power the marginal          *)
(* efficiency and the switch threshold are the undefined/infinite          *)
(* sentinel: no exception is raised and no ordinary number is produced.    *)
(* Stated for runs in which every widget value is positive.                *)
C4_EqualPowerSentinel ==
    \A pr \in Pairs :
        (ValidInput /\ pr.hi.power = pr.lo.power) =>
            /\ ~(exc = "ZeroDivisionError" /\ line = pr.at)
            /\ ~IsNum(pr.delta)
            /\ ~IsNum(pr.threshold)

(* C5: for an adjacent pair with hi.power > lo.power and hi.hashrate <=    *)
(* lo.hashrate the switch threshold is an explicit "dominated" condition,  *)
(* never a number.  Stated for runs in which every widget value is         *)
(* positive.                                                               *)
C5_Dominated ==
    \A pr \in Pairs :
        ( /\ ValidInput /\ pr.threshold # Unset
          /\ Lt(pr.lo.power, pr.hi.power) /\ Leq(pr.hi.hash, pr.lo.hash) )
        => pr.threshold.tag = "dominated"

(* C6: for a positive purchase price the payback time of a mode whose      *)
(* profit at electricity price 0 is <= 0 is the undefined/infinite         *)
(* sentinel, never a number and never an exception; with positive profit   *)
(* it is purchase_price / (profit_per_hour * 24 * 365).                    *)
C6_PaybackSentinel ==
    /\ ~(exc = "ZeroDivisionError" /\ line \in {253, 254, 255})
    /\ \A m \in ModeNames :
          (pc = "done" /\ Positive(purchase_price)) =>
              IF Positive(Mode(m).rev)
              THEN Mode(m).PB =
                     Div(purchase_price, Mul(Mul(Mode(m).rev, IntVal(24)), IntVal(365)))
              ELSE Mode(m).PB = None

(* C7: for a mode with positive power and hashrate and a positive market,  *)
(* profit_per_hour is non-increasing in the electricity price: over the    *)
(* plotted prices, over the whole prices of the slider, and between the    *)
(* selected price and the ends of the plotted range.                       *)
C7_Monotone ==
    \A m \in ModeNames :
        ( /\ IsNum(min_profit) /\ PositiveMarket /\ PositiveMode(Mode(m)) )
        =>
        LET md == Mode(m)
        IN  /\ \A i, j \in 0..(CurvePoints - 1) :
                  i <= j => Leq(md.curve[j], md.curve[i])
            /\ \A p1, p2 \in 0..slider_max.n :
                  p1 <= p2 =>
                     Leq(profit_per_hour(th_per_nok, md.power, ToNok(IntVal(p2)), md.hash),
                         profit_per_hour(th_per_nok, md.power, ToNok(IntVal(p1)), md.hash))
            /\ IsNum(md.profit) =>
                  /\ Leq(Mul(IntVal(100), md.profit), md.curve[0])
                  /\ Leq(md.curve[CurvePoints - 1], Mul(IntVal(100), md.profit))

\* the Eco curve strictly falls over a slider range that is not a single point
C7_Witness ==
    /\ pc = "done" /\ PositiveMarket /\ PositiveMode(Mode("eco"))
    /\ slider_max.n >= 1
    /\ Lt(eco_profit_curve[CurvePoints - 1], eco_profit_curve[0])

(* C8: at electricity price 0 profit_per_hour is the pure revenue          *)
(* hashrate * 3600 / th_per_nok whatever the power: two modes with the     *)
(* same hashrate have the same profit at price 0 and the same payback.     *)
C8_PureRevenue ==
    /\ \A m \in ModeNames :
          LET md == Mode(m)
              revenue == Div(Mul(md.hash, IntVal(3600)), th_per_nok)
          IN  /\ IsNum(md.rev) => md.rev = revenue
              /\ (IsNum(md.profit) /\ elec_price = IntVal(0)) => md.profit = revenue
              /\ IsNum(min_profit) => md.curve[0] = Mul(IntVal(100), revenue)
    /\ \A m1, m2 \in ModeNames :
          (pc = "done" /\ Mode(m1).hash = Mode(m2).hash) =>
              /\ Mode(m1).rev = Mode(m2).rev
              /\ Mode(m1).PB = Mode(m2).PB

\* same hashrate, different power, a selected price above 0: same payback
C8_Witness ==
    /\ pc = "done" /\ Positive(elec_price)
    /\ eco_hash = std_hash /\ eco_power # std_power
    /\ eco_rev = std_rev /\ eco_PB = std_PB

(* C9: for a mode with positive power and hashrate, th_per_kwh and         *)
(* j_per_th are both strictly positive numbers and their product is        *)
(* 3,600,000.                                                              *)
C9_Reciprocal ==
    \A m \in ModeNames :
        LET md == Mode(m)
        IN  (PositiveMode(md) /\ md.jth # Unset) =>
               /\ Positive(md.eff) /\ Positive(md.jth)
               /\ Mul(md.eff, md.jth) = IntVal(3600000)

C9_Witness ==
    /\ PositiveMode(Mode("sup"))
    /\ IsNum(sup_eff) /\ IsNum(sup_jth)
    /\ Mul(sup_eff, sup_jth) = IntVal(3600000)

(* C10: for an electricity price > 0 and a positive market, a mode's       *)
(* profit_per_hour is zero exactly when its j_per_th equals                *)
(* cut_off_efficiency, positive when its j_per_th is smaller and negative  *)
(* when it is larger; at price 0 nothing is divided and the value is the   *)
(* infinity marker (cut_off_efficiency = None).                            *)
C10_EfficiencyBreakeven ==
    /\ (cut_off_efficiency # Unset /\ Positive(elec_price) /\ PositiveMarket) =>
          /\ IsNum(cut_off_efficiency)
          /\ \A m \in ModeNames :
                Sign(Mode(m).profit) = Sign(Sub(cut_off_efficiency, Mode(m).jth))
    /\ (pc \in {"payback", "done"} /\ elec_price = IntVal(0)) =>
          /\ cut_off_efficiency = None
          /\ efficiency_label = "inf J/TH"
    /\ ~(exc = "ZeroDivisionError" /\ line = 233)

\* the same statement for the modes whose hashrate is positive
BreakevenConsistentForPositiveHash ==
    (cut_off_efficiency # Unset /\ Positive(elec_price) /\ PositiveMarket) =>
        \A m \in ModeNames :
            Positive(Mode(m).hash) =>
                Sign(Mode(m).profit) = Sign(Sub(cut_off_efficiency, Mode(m).jth))

====
